---- MODULE Spec2Model ----
(***************************************************************************)
(* Local-scope completion for PHP (src/src/complete.ts): the scope cache,  *)
(* the scope collector getScope, the completion source                     *)
(* localCompletionSource and the exclusion wrapper of globalCompletion,    *)
(* over a fixed syntax tree and document.                                  *)
(*                                                                         *)
(* A document is a table of syntax-tree nodes in pre-order (node 1 is the  *)
(* top node) with their kind name ("" for an anonymous node), byte range   *)
(* [from, to), parent and children in document order, plus the text of its *)
(* tokens as UTF-16 code units; every position not covered by a token      *)
(* holds a space.                                                          *)
(***************************************************************************)
EXTENDS Integers, Sequences, FiniteSets, TLC

\* function foo($x) { function foo($y); } class Bar;
DocNested ==
  [ len |-> 49,
    nodes |-> <<
      [name |-> "Script", from |-> 0, to |-> 49, parent |-> 0, children |-> <<2, 14>>],  \* 1
      [name |-> "FunctionDefinition", from |-> 0, to |-> 38, parent |-> 1, children |-> <<3, 4, 5, 7>>],  \* 2
      [name |-> "", from |-> 0, to |-> 8, parent |-> 2, children |-> <<>>],  \* 3
      [name |-> "VariableName", from |-> 9, to |-> 12, parent |-> 2, children |-> <<>>],  \* 4
      [name |-> "ParamList", from |-> 12, to |-> 16, parent |-> 2, children |-> <<6>>],  \* 5
      [name |-> "VariableName", from |-> 13, to |-> 15, parent |-> 5, children |-> <<>>],  \* 6
      [name |-> "Body", from |-> 17, to |-> 38, parent |-> 2, children |-> <<8>>],  \* 7
      [name |-> "FunctionDefinition", from |-> 19, to |-> 36, parent |-> 7, children |-> <<9, 10, 11, 13>>],  \* 8
      [name |-> "", from |-> 19, to |-> 27, parent |-> 8, children |-> <<>>],  \* 9
      [name |-> "VariableName", from |-> 28, to |-> 31, parent |-> 8, children |-> <<>>],  \* 10
      [name |-> "ParamList", from |-> 31, to |-> 35, parent |-> 8, children |-> <<12>>],  \* 11
      [name |-> "VariableName", from |-> 32, to |-> 34, parent |-> 11, children |-> <<>>],  \* 12
      [name |-> "", from |-> 35, to |-> 36, parent |-> 8, children |-> <<>>],  \* 13
      [name |-> "ClassDefinition", from |-> 39, to |-> 49, parent |-> 1, children |-> <<15, 16, 17>>],  \* 14
      [name |-> "", from |-> 39, to |-> 44, parent |-> 14, children |-> <<>>],  \* 15
      [name |-> "VariableName", from |-> 45, to |-> 48, parent |-> 14, children |-> <<>>],  \* 16
      [name |-> "", from |-> 48, to |-> 49, parent |-> 14, children |-> <<>>]   \* 17
    >>,
    text |-> {
      [at |-> 0, s |-> <<102, 117, 110, 99, 116, 105, 111, 110>>],  \* 'function'
      [at |-> 9, s |-> <<102, 111, 111>>],  \* 'foo'
      [at |-> 12, s |-> <<40>>],  \* '('
      [at |-> 13, s |-> <<36, 120>>],  \* '$x'
      [at |-> 15, s |-> <<41>>],  \* ')'
      [at |-> 17, s |-> <<123>>],  \* '{'
      [at |-> 19, s |-> <<102, 117, 110, 99, 116, 105, 111, 110>>],  \* 'function'
      [at |-> 28, s |-> <<102, 111, 111>>],  \* 'foo'
      [at |-> 31, s |-> <<40>>],  \* '('
      [at |-> 32, s |-> <<36, 121>>],  \* '$y'
      [at |-> 34, s |-> <<41>>],  \* ')'
      [at |-> 35, s |-> <<59>>],  \* ';'
      [at |-> 37, s |-> <<125>>],  \* '}'
      [at |-> 39, s |-> <<99, 108, 97, 115, 115>>],  \* 'class'
      [at |-> 45, s |-> <<66, 97, 114>>],  \* 'Bar'
      [at |-> 48, s |-> <<59>>]   \* ';'
    } ]

\* $my_var = 1; 123; caf\xe9_1; a\xa0b; abcdefghij_12345678; abcdefghij_123456789; function (); $my_va
DocWords ==
  [ len |-> 93,
    nodes |-> <<
      [name |-> "Script", from |-> 0, to |-> 93, parent |-> 0, children |-> <<2, 8, 11, 14, 17, 20, 23, 27>>],  \* 1
      [name |-> "ExpressionStatement", from |-> 0, to |-> 12, parent |-> 1, children |-> <<3, 7>>],  \* 2
      [name |-> "AssignmentExpression", from |-> 0, to |-> 11, parent |-> 2, children |-> <<4, 5, 6>>],  \* 3
      [name |-> "VariableName", from |-> 0, to |-> 7, parent |-> 3, children |-> <<>>],  \* 4
      [name |-> "", from |-> 8, to |-> 9, parent |-> 3, children |-> <<>>],  \* 5
      [name |-> "Number", from |-> 10, to |-> 11, parent |-> 3, children |-> <<>>],  \* 6
      [name |-> "", from |-> 11, to |-> 12, parent |-> 2, children |-> <<>>],  \* 7
      [name |-> "ExpressionStatement", from |-> 13, to |-> 17, parent |-> 1, children |-> <<9, 10>>],  \* 8
      [name |-> "Number", from |-> 13, to |-> 16, parent |-> 8, children |-> <<>>],  \* 9
      [name |-> "", from |-> 16, to |-> 17, parent |-> 8, children |-> <<>>],  \* 10
      [name |-> "ExpressionStatement", from |-> 18, to |-> 25, parent |-> 1, children |-> <<12, 13>>],  \* 11
      [name |-> "Name", from |-> 18, to |-> 24, parent |-> 11, children |-> <<>>],  \* 12
      [name |-> "", from |-> 24, to |-> 25, parent |-> 11, children |-> <<>>],  \* 13
      [name |-> "ExpressionStatement", from |-> 26, to |-> 30, parent |-> 1, children |-> <<15, 16>>],  \* 14
      [name |-> "Name", from |-> 26, to |-> 29, parent |-> 14, children |-> <<>>],  \* 15
      [name |-> "", from |-> 29, to |-> 30, parent |-> 14, children |-> <<>>],  \* 16
      [name |-> "ExpressionStatement", from |-> 31, to |-> 51, parent |-> 1, children |-> <<18, 19>>],  \* 17
      [name |-> "Name", from |-> 31, to |-> 50, parent |-> 17, children |-> <<>>],  \* 18
      [name |-> "", from |-> 50, to |-> 51, parent |-> 17, children |-> <<>>],  \* 19
      [name |-> "ExpressionStatement", from |-> 52, to |-> 73, parent |-> 1, children |-> <<21, 22>>],  \* 20
      [name |-> "Name", from |-> 52, to |-> 72, parent |-> 20, children |-> <<>>],  \* 21
      [name |-> "", from |-> 72, to |-> 73, parent |-> 20, children |-> <<>>],  \* 22
      [name |-> "FunctionDefinition", from |-> 74, to |-> 86, parent |-> 1, children |-> <<24, 25, 26>>],  \* 23
      [name |-> "", from |-> 74, to |-> 82, parent |-> 23, children |-> <<>>],  \* 24
      [name |-> "ParamList", from |-> 83, to |-> 85, parent |-> 23, children |-> <<>>],  \* 25
      [name |-> "", from |-> 85, to |-> 86, parent |-> 23, children |-> <<>>],  \* 26
      [name |-> "ExpressionStatement", from |-> 87, to |-> 93, parent |-> 1, children |-> <<28>>],  \* 27
      [name |-> "VariableName", from |-> 87, to |-> 93, parent |-> 27, children |-> <<>>]   \* 28
    >>,
    text |-> {
      [at |-> 0, s |-> <<36, 109, 121, 95, 118, 97, 114>>],  \* '$my_var'
      [at |-> 8, s |-> <<61>>],  \* '='
      [at |-> 10, s |-> <<49>>],  \* '1'
      [at |-> 11, s |-> <<59>>],  \* ';'
      [at |-> 13, s |-> <<49, 50, 51>>],  \* '123'
      [at |-> 16, s |-> <<59>>],  \* ';'
      [at |-> 18, s |-> <<99, 97, 102, 233, 95, 49>>],  \* 'caf\xe9_1'
      [at |-> 24, s |-> <<59>>],  \* ';'
      [at |-> 26, s |-> <<97, 160, 98>>],  \* 'a\xa0b'
      [at |-> 29, s |-> <<59>>],  \* ';'
      [at |-> 31, s |-> <<97, 98, 99, 100, 101, 102, 103, 104, 105, 106, 95, 49, 50, 51, 52, 53, 54, 55, 56>>],  \* 'abcdefghij_12345678'
      [at |-> 50, s |-> <<59>>],  \* ';'
      [at |-> 52, s |-> <<97, 98, 99, 100, 101, 102, 103, 104, 105, 106, 95, 49, 50, 51, 52, 53, 54, 55, 56, 57>>],  \* 'abcdefghij_123456789'
      [at |-> 72, s |-> <<59>>],  \* ';'
      [at |-> 74, s |-> <<102, 117, 110, 99, 116, 105, 111, 110>>],  \* 'function'
      [at |-> 83, s |-> <<40, 41>>],  \* '()'
      [at |-> 85, s |-> <<59>>],  \* ';'
      [at |-> 87, s |-> <<36, 109, 121, 95, 118, 97>>]   \* '$my_va'
    } ]

\* function f(); "hello $na" 'hi' // c f"{$v}" $o->p
DocStrings ==
  [ len |-> 49,
    nodes |-> <<
      [name |-> "Script", from |-> 0, to |-> 49, parent |-> 0, children |-> <<2, 7, 9, 10, 11, 14>>],  \* 1
      [name |-> "FunctionDefinition", from |-> 0, to |-> 13, parent |-> 1, children |-> <<3, 4, 5, 6>>],  \* 2
      [name |-> "", from |-> 0, to |-> 8, parent |-> 2, children |-> <<>>],  \* 3
      [name |-> "VariableName", from |-> 9, to |-> 10, parent |-> 2, children |-> <<>>],  \* 4
      [name |-> "ParamList", from |-> 10, to |-> 12, parent |-> 2, children |-> <<>>],  \* 5
      [name |-> "", from |-> 12, to |-> 13, parent |-> 2, children |-> <<>>],  \* 6
      [name |-> "String", from |-> 14, to |-> 25, parent |-> 1, children |-> <<8>>],  \* 7
      [name |-> "VariableName", from |-> 21, to |-> 24, parent |-> 7, children |-> <<>>],  \* 8
      [name |-> "String", from |-> 26, to |-> 30, parent |-> 1, children |-> <<>>],  \* 9
      [name |-> "Comment", from |-> 31, to |-> 35, parent |-> 1, children |-> <<>>],  \* 10
      [name |-> "FormatString", from |-> 36, to |-> 43, parent |-> 1, children |-> <<12>>],  \* 11
      [name |-> "FormatReplacement", from |-> 38, to |-> 42, parent |-> 11, children |-> <<13>>],  \* 12
      [name |-> "VariableName", from |-> 39, to |-> 41, parent |-> 12, children |-> <<>>],  \* 13
      [name |-> "MemberExpression", from |-> 44, to |-> 49, parent |-> 1, children |-> <<15, 16, 17>>],  \* 14
      [name |-> "VariableName", from |-> 44, to |-> 46, parent |-> 14, children |-> <<>>],  \* 15
      [name |-> "", from |-> 46, to |-> 48, parent |-> 14, children |-> <<>>],  \* 16
      [name |-> "PropertyName", from |-> 48, to |-> 49, parent |-> 14, children |-> <<>>]   \* 17
    >>,
    text |-> {
      [at |-> 0, s |-> <<102, 117, 110, 99, 116, 105, 111, 110>>],  \* 'function'
      [at |-> 9, s |-> <<102>>],  \* 'f'
      [at |-> 10, s |-> <<40, 41>>],  \* '()'
      [at |-> 12, s |-> <<59>>],  \* ';'
      [at |-> 14, s |-> <<34, 104, 101, 108, 108, 111, 32>>],  \* '"hello '
      [at |-> 21, s |-> <<36, 110, 97>>],  \* '$na'
      [at |-> 24, s |-> <<34>>],  \* '"'
      [at |-> 26, s |-> <<39, 104, 105, 39>>],  \* "'hi'"
      [at |-> 31, s |-> <<47, 47, 32, 99>>],  \* '// c'
      [at |-> 36, s |-> <<102, 34>>],  \* 'f"'
      [at |-> 38, s |-> <<123>>],  \* '{'
      [at |-> 39, s |-> <<36, 118>>],  \* '$v'
      [at |-> 41, s |-> <<125>>],  \* '}'
      [at |-> 42, s |-> <<34>>],  \* '"'
      [at |-> 44, s |-> <<36, 111>>],  \* '$o'
      [at |-> 46, s |-> <<45, 62>>],  \* '->'
      [at |-> 48, s |-> <<112>>]   \* 'p'
    } ]

\* [function g($p); [class K; ...8193] ...20000] [class M; ...8192] $z
DocLarge ==
  [ len |-> 28196,
    nodes |-> <<
      [name |-> "Script", from |-> 0, to |-> 28196, parent |-> 0, children |-> <<2, 14, 19>>],  \* 1
      [name |-> "", from |-> 0, to |-> 20000, parent |-> 1, children |-> <<3, 9>>],  \* 2
      [name |-> "FunctionDefinition", from |-> 0, to |-> 15, parent |-> 2, children |-> <<4, 5, 6, 8>>],  \* 3
      [name |-> "", from |-> 0, to |-> 8, parent |-> 3, children |-> <<>>],  \* 4
      [name |-> "VariableName", from |-> 9, to |-> 10, parent |-> 3, children |-> <<>>],  \* 5
      [name |-> "ParamList", from |-> 10, to |-> 14, parent |-> 3, children |-> <<7>>],  \* 6
      [name |-> "VariableName", from |-> 11, to |-> 13, parent |-> 6, children |-> <<>>],  \* 7
      [name |-> "", from |-> 14, to |-> 15, parent |-> 3, children |-> <<>>],  \* 8
      [name |-> "", from |-> 16, to |-> 8209, parent |-> 2, children |-> <<10>>],  \* 9
      [name |-> "ClassDefinition", from |-> 16, to |-> 24, parent |-> 9, children |-> <<11, 12, 13>>],  \* 10
      [name |-> "", from |-> 16, to |-> 21, parent |-> 10, children |-> <<>>],  \* 11
      [name |-> "VariableName", from |-> 22, to |-> 23, parent |-> 10, children |-> <<>>],  \* 12
      [name |-> "", from |-> 23, to |-> 24, parent |-> 10, children |-> <<>>],  \* 13
      [name |-> "", from |-> 20001, to |-> 28193, parent |-> 1, children |-> <<15>>],  \* 14
      [name |-> "ClassDefinition", from |-> 20001, to |-> 20009, parent |-> 14, children |-> <<16, 17, 18>>],  \* 15
      [name |-> "", from |-> 20001, to |-> 20006, parent |-> 15, children |-> <<>>],  \* 16
      [name |-> "VariableName", from |-> 20007, to |-> 20008, parent |-> 15, children |-> <<>>],  \* 17
      [name |-> "", from |-> 20008, to |-> 20009, parent |-> 15, children |-> <<>>],  \* 18
      [name |-> "VariableName", from |-> 28194, to |-> 28196, parent |-> 1, children |-> <<>>]   \* 19
    >>,
    text |-> {
      [at |-> 0, s |-> <<102, 117, 110, 99, 116, 105, 111, 110>>],  \* 'function'
      [at |-> 9, s |-> <<103>>],  \* 'g'
      [at |-> 10, s |-> <<40>>],  \* '('
      [at |-> 11, s |-> <<36, 112>>],  \* '$p'
      [at |-> 13, s |-> <<41>>],  \* ')'
      [at |-> 14, s |-> <<59>>],  \* ';'
      [at |-> 16, s |-> <<99, 108, 97, 115, 115>>],  \* 'class'
      [at |-> 22, s |-> <<75>>],  \* 'K'
      [at |-> 23, s |-> <<59>>],  \* ';'
      [at |-> 20001, s |-> <<99, 108, 97, 115, 115>>],  \* 'class'
      [at |-> 20007, s |-> <<77>>],  \* 'M'
      [at |-> 20008, s |-> <<59>>],  \* ';'
      [at |-> 28194, s |-> <<36, 122>>]   \* '$z'
    } ]

\* for $i {class C;} fn($q) r
DocLoops ==
  [ len |-> 26,
    nodes |-> <<
      [name |-> "Script", from |-> 0, to |-> 26, parent |-> 0, children |-> <<2, 10>>],  \* 1
      [name |-> "ForStatement", from |-> 0, to |-> 17, parent |-> 1, children |-> <<3, 4, 5>>],  \* 2
      [name |-> "", from |-> 0, to |-> 3, parent |-> 2, children |-> <<>>],  \* 3
      [name |-> "VariableName", from |-> 4, to |-> 6, parent |-> 2, children |-> <<>>],  \* 4
      [name |-> "Body", from |-> 7, to |-> 17, parent |-> 2, children |-> <<6>>],  \* 5
      [name |-> "ClassDefinition", from |-> 8, to |-> 16, parent |-> 5, children |-> <<7, 8, 9>>],  \* 6
      [name |-> "", from |-> 8, to |-> 13, parent |-> 6, children |-> <<>>],  \* 7
      [name |-> "VariableName", from |-> 14, to |-> 15, parent |-> 6, children |-> <<>>],  \* 8
      [name |-> "", from |-> 15, to |-> 16, parent |-> 6, children |-> <<>>],  \* 9
      [name |-> "LambdaExpression", from |-> 18, to |-> 26, parent |-> 1, children |-> <<11, 12, 14>>],  \* 10
      [name |-> "", from |-> 18, to |-> 20, parent |-> 10, children |-> <<>>],  \* 11
      [name |-> "ParamList", from |-> 20, to |-> 24, parent |-> 10, children |-> <<13>>],  \* 12
      [name |-> "VariableName", from |-> 21, to |-> 23, parent |-> 12, children |-> <<>>],  \* 13
      [name |-> "Name", from |-> 25, to |-> 26, parent |-> 10, children |-> <<>>]   \* 14
    >>,
    text |-> {
      [at |-> 0, s |-> <<102, 111, 114>>],  \* 'for'
      [at |-> 4, s |-> <<36, 105>>],  \* '$i'
      [at |-> 7, s |-> <<123>>],  \* '{'
      [at |-> 8, s |-> <<99, 108, 97, 115, 115>>],  \* 'class'
      [at |-> 14, s |-> <<67>>],  \* 'C'
      [at |-> 15, s |-> <<59>>],  \* ';'
      [at |-> 16, s |-> <<125>>],  \* '}'
      [at |-> 18, s |-> <<102, 110>>],  \* 'fn'
      [at |-> 20, s |-> <<40>>],  \* '('
      [at |-> 21, s |-> <<36, 113>>],  \* '$q'
      [at |-> 23, s |-> <<41>>],  \* ')'
      [at |-> 25, s |-> <<114>>]   \* 'r'
    } ]

\* the empty document
DocEmpty ==
  [ len |-> 0,
    nodes |-> <<
      [name |-> "Script", from |-> 0, to |-> 0, parent |-> 0, children |-> <<>>]   \* 1
    >>,
    text |-> {
    } ]

\* The documents a run may start from.
Docs == <<DocNested, DocWords, DocStrings, DocLarge, DocLoops, DocEmpty>>

----------------------------------------------------------------------------
(* Program constants *)

ScopeNodes ==
  {"Script", "Body", "FunctionDefinition", "ClassDefinition", "LambdaExpression", "ForStatement"}

\* kind name -> the tag its defID extractor defines with
gatherCompletions == [FunctionDefinition |-> "function", ClassDefinition |-> "class"]

dontComplete == <<"String", "FormatString", "Comment", "PropertyName">>

\* span above which an anonymous node gets a cache entry of its own
BigNodeSpan == 8192

\* a token is tested against Identifier only when shorter than this
WordSpan == 20

\* how many list objects one node may have had created for it in a run
MaxAlloc == 2

----------------------------------------------------------------------------
(* The syntax tree and the text buffer *)

Nodes(d) == 1..Len(Docs[d].nodes)

Node(d, n) == Docs[d].nodes[n]

Span(d, n) == Node(d, n).to - Node(d, n).from

\* SyntaxNode.getChild(kind): the first direct child of that kind, 0 for null
getChild(d, n, kind) ==
  LET ch == Node(d, n).children
      hits == {i \in 1..Len(ch) : Node(d, ch[i]).name = kind}
  IN IF hits = {} THEN 0
     ELSE ch[CHOOSE i \in hits : \A j \in hits : i <= j]

charAt(d, p) ==
  LET at == {c \in Docs[d].text : c.at <= p /\ p < c.at + Len(c.s)}
  IN IF at = {} THEN 32 ELSE LET c == CHOOSE c \in at : TRUE IN c.s[p - c.at + 1]

\* Text.sliceString(from, to)
sliceString(d, from, to) == [i \in 1..(to - from) |-> charAt(d, from + i - 1)]

\* node and its ancestors, innermost first (the pos = pos.parent loop)
RECURSIVE Ancestors(_, _)
Ancestors(d, n) == IF n = 0 THEN <<>> ELSE <<n>> \o Ancestors(d, Node(d, n).parent)

----------------------------------------------------------------------------
(* State *)

VARIABLES
  doc,    \* the document (and tree) the editor holds: an index into Docs
  cache,  \* the NodeWeakMap: node -> reference of its cached list, or NoList
  heap,   \* the list objects created so far: reference -> contents
  made,   \* node -> how many list objects getScope created for it
  ret     \* the last call: its arguments, what it returned, the nodes its walks visited

vars == <<doc, cache, heap, made, ret>>

\* cache.get's undefined
NoList == <<0, 0>>

NoRet ==
  [op |-> "none", node |-> 0, pos |-> 0, explicit |-> FALSE, null |-> TRUE,
   ref |-> NoList, options |-> <<>>, from |-> 0, validFor |-> "", walk |-> <<>>]

----------------------------------------------------------------------------
(* getScope *)

\* def(node, type): the Completion pushed; tok records the node def was called with
def(d, tok, type) ==
  [label |-> sliceString(d, Node(d, tok).from, Node(d, tok).to), type |-> type, tok |-> tok]

\* def(node, type) where def(id, type) is meant
defIDOfNode(d, n, type, completions) ==
  [completions |-> Append(completions, def(d, n, type)), handled |-> TRUE]

\* defID(type)(node, def): the list after the extractor ran, and what it returned
defID(d, n, type, completions) ==
  LET id == getChild(d, n, "VariableName")
  IN [completions |-> IF id # 0 THEN Append(completions, def(d, id, type)) ELSE completions,
      handled |-> TRUE]

\* if (cached.length) return cached
isCachedNonEmpty(st, n) == st.cache[n] # NoList /\ st.heap[st.cache[n]] # <<>>

\* if (cached) return cached: an array is truthy, also an empty one
isCached(st, n) == st.cache[n] # NoList

\* node.to - node.from > 8192
isBig(d, n) == Span(d, n) > BigNodeSpan

\* the root treated like every other node
isTopNever(fr) == FALSE

\* if (top): the first node the callback sees is the root of the walk
isTop(fr) == fr.top

\* top && ScopeNodes.has(node.name)
isNestedScopeAtTop(d, n, top) == top /\ Node(d, n).name \in ScopeNodes

\* !top && ScopeNodes.has(node.name)
isNestedScope(d, n, top) == ~top /\ Node(d, n).name \in ScopeNodes

RECURSIVE getScope(_, _, _)

\* the recursive call made, its candidates not pushed
spliceNothing(fr, r) == [fr EXCEPT !.st = r.st]

\* for (let c of list) completions.push(c), list being what getScope returned
splice(fr, r) == [fr EXCEPT !.st = r.st, !.completions = @ \o r.st.heap[r.ref]]

\* The iterate callback on node n. fr is the running call's frame: the shared
\* state st, its completions and its top flag. descend is "did not return false".
enter(d, n, fr) ==
  LET seen == [fr EXCEPT !.st.walk = Append(@, n)]
      name == Node(d, n).name
  IN IF isTop(fr)
       THEN [fr |-> [seen EXCEPT !.top = FALSE], descend |-> TRUE]
     ELSE IF name # ""
       THEN IF name \in DOMAIN gatherCompletions
              THEN LET g == defID(d, n, gatherCompletions[name], seen.completions)
                   IN [fr |-> [seen EXCEPT !.completions = g.completions],
                       descend |-> ~(g.handled \/ isNestedScope(d, n, seen.top))]
              ELSE [fr |-> seen, descend |-> ~isNestedScope(d, n, seen.top)]
     ELSE IF isBig(d, n)
       THEN [fr |-> splice(seen, getScope(d, n, seen.st)), descend |-> FALSE]
     ELSE [fr |-> seen, descend |-> TRUE]

RECURSIVE iterate(_, _, _)
RECURSIVE iterateAll(_, _, _)

\* the children are walked unless the callback returned false
descend(d, ch, e) == IF e.descend THEN iterateAll(d, ch, e.fr) ELSE e.fr

\* cursor(IncludeAnonymous).iterate: pre-order, document order, pruned by enter
iterate(d, n, fr) ==
  descend(d, Node(d, n).children, enter(d, n, fr))

iterateAll(d, ch, fr) ==
  IF ch = <<>> THEN fr ELSE iterateAll(d, Tail(ch), iterate(d, Head(ch), fr))

\* cache.set(node, completions); return completions
store(n, fr) ==
  LET ref == <<n, fr.st.made[n] + 1>>
  IN [st |-> [fr.st EXCEPT !.cache[n] = ref,
                           !.heap = (ref :> fr.completions) @@ @,
                           !.made[n] = @ + 1],
      ref |-> ref]

\* getScope(doc, node) from shared state st: the state after and the list returned
getScope(d, n, st) ==
  IF isCached(st, n)
    THEN [st |-> st, ref |-> st.cache[n]]
    ELSE store(n, iterate(d, n, [st |-> st, completions |-> <<>>, top |-> TRUE]))

\* The nodes getScope is called with: scope kinds (by localCompletionSource)
\* and large anonymous nodes (by getScope itself).
ScopeRoots(d) == {n \in Nodes(d) : Node(d, n).name \in ScopeNodes}

BigNodes(d) == {n \in Nodes(d) : Node(d, n).name = "" /\ isBig(d, n)}

Shared == [cache |-> cache, heap |-> heap, made |-> made, walk |-> <<>>]

\* A call starts when the caller holds no result of an earlier one.
Idle == ret.op = "none"

Commit(st) ==
  /\ Idle
  /\ \A n \in Nodes(doc) : st.made[n] <= MaxAlloc
  /\ cache' = st.cache
  /\ heap' = st.heap
  /\ made' = st.made

GetScope(n) ==
  LET r == getScope(doc, n, Shared)
  IN /\ Commit(r.st)
     /\ ret' = [NoRet EXCEPT !.op = "getScope", !.node = n, !.null = FALSE,
                             !.ref = r.ref, !.walk = r.st.walk]
     /\ UNCHANGED doc

----------------------------------------------------------------------------
(* localCompletionSource *)

\* \w
isWordChar(c) ==
  \/ 48 <= c /\ c <= 57
  \/ 65 <= c /\ c <= 90
  \/ c = 95
  \/ 97 <= c /\ c <= 122

\* \d
isDigit(c) == 48 <= c /\ c <= 57

\* \xa1-\uffff
isExtended(c) == 161 <= c /\ c <= 65535

\* [\w\xa1-\uffff], the class of the first character
isFirstChar(c) == isWordChar(c) \/ isExtended(c)

\* [\w\d\xa1-\uffff], the class of the characters after it
isRestChar(c) == isWordChar(c) \/ isDigit(c) \/ isExtended(c)

\* Identifier.test(s): /^[\w\xa1-\uffff][\w\d\xa1-\uffff]*$/
Identifier(s) ==
  /\ Len(s) >= 1
  /\ isFirstChar(s[1])
  /\ \A i \in 2..Len(s) : isRestChar(s[i])

\* The children a tree cursor without IncludeAnonymous sees below n: anonymous
\* nodes are entered transparently.
RECURSIVE namedBelow(_, _)
namedBelow(d, n) ==
  UNION {IF Node(d, c).name # "" THEN {c} ELSE namedBelow(d, c) :
           c \in {Node(d, n).children[i] : i \in 1..Len(Node(d, n).children)}}

\* tree.resolveInner(pos, -1): from the top node, keep entering the child that
\* covers pos or ends at it (from < pos <= to)
RECURSIVE resolveFrom(_, _, _)
resolveFrom(d, n, pos) ==
  LET inside == {c \in namedBelow(d, n) : Node(d, c).from < pos /\ pos <= Node(d, c).to}
  IN IF inside = {} THEN n ELSE resolveFrom(d, CHOOSE c \in inside : TRUE, pos)

resolveInner(d, pos) == resolveFrom(d, 1, pos)

\* dontComplete.indexOf(inner.name) > 0
isExcludedAfterFirst(d, inner) ==
  \E i \in 2..Len(dontComplete) : dontComplete[i] = Node(d, inner).name

\* dontComplete.indexOf(inner.name) > -1
isExcluded(d, inner) == \E i \in 1..Len(dontComplete) : dontComplete[i] = Node(d, inner).name

isWord(d, inner) ==
  \/ Node(d, inner).name = "VariableName"
  \/ /\ Span(d, inner) < WordSpan
     /\ Identifier(sliceString(d, Node(d, inner).from, Node(d, inner).to))

\* if (!isWord) return null
declinesExplicitToo(d, inner, explicit) == ~isWord(d, inner)

\* if (!isWord && !context.explicit) return null
declines(d, inner, explicit) == ~isWord(d, inner) /\ ~explicit

\* list.concat(options)
concatBefore(options, list) == list \o options

\* options.concat(list): a new array, the receiver first
concat(options, list) == options \o list

\* for (pos = inner; pos; pos = pos.parent) over the rest of the path
RECURSIVE collect(_, _, _, _)

\* list.unshift(...options); options = list: the merge done in the cached list
mergeInPlace(d, rest, options, r) ==
  collect(d, rest, [r.st EXCEPT !.heap[r.ref] = options \o @], options \o r.st.heap[r.ref])

\* options = options.concat(list), list being what getScope returned
merge(d, rest, options, r) == collect(d, rest, r.st, concat(options, r.st.heap[r.ref]))

collect(d, path, st, options) ==
  IF path = <<>> THEN [st |-> st, options |-> options]
  ELSE IF Node(d, Head(path)).name \in ScopeNodes
    THEN merge(d, Tail(path), options, getScope(d, Head(path), st))
  ELSE collect(d, Tail(path), st, options)

\* from: context.pos
resultFromCursor(d, inner, pos) == pos

\* from: isWord ? inner.from : context.pos
resultFrom(d, inner, pos) == IF isWord(d, inner) THEN Node(d, inner).from ELSE pos

\* The result has no `to`: the range the host replaces ends at the cursor.
resultTo(r) == r.pos

\* The cursor offsets tried: at, just inside and at the end of every node
Offsets(d) ==
  {p \in UNION {{Node(d, n).from, Node(d, n).from + 1, Node(d, n).to} : n \in Nodes(d)} :
     p <= Docs[d].len}

LocalCompletionSource(pos, explicit) ==
  LET inner == resolveInner(doc, pos)
      request == [NoRet EXCEPT !.op = "local", !.pos = pos, !.explicit = explicit]
  IN /\ Idle
     /\ UNCHANGED doc
     /\ IF isExcluded(doc, inner)
          THEN ret' = request /\ UNCHANGED <<cache, heap, made>>
        ELSE IF declines(doc, inner, explicit)
          THEN ret' = request /\ UNCHANGED <<cache, heap, made>>
        ELSE LET c == collect(doc, Ancestors(doc, inner), Shared, <<>>)
             IN /\ Commit(c.st)
                /\ ret' = [request EXCEPT !.null = FALSE, !.options = c.options,
                                          !.from = resultFrom(doc, inner, pos),
                                          !.validFor = "Identifier", !.walk = c.st.walk]

----------------------------------------------------------------------------
(* globalCompletion *)

\* ifNotIn(nodes, source) of @codemirror/autocomplete: the source does not fire
\* when the cursor is in a syntax node with one of the given names, the node
\* resolveInner(pos, -1) gives or one around it.
ifNotIn(d, names, pos) ==
  LET path == Ancestors(d, resolveInner(d, pos))
  IN \E i \in 1..Len(path) : \E j \in 1..Len(names) : names[j] = Node(d, path[i]).name

\* listed: whether completeFromList(globals.concat(snippets)) gives a result here
GlobalCompletion(pos, explicit, listed) ==
  /\ Idle
  /\ ret' = [NoRet EXCEPT !.op = "global", !.pos = pos, !.explicit = explicit,
                          !.null = ifNotIn(doc, dontComplete, pos) \/ ~listed]
  /\ UNCHANGED <<doc, cache, heap, made>>

----------------------------------------------------------------------------

\* The caller takes the result; only the cache outlives the call.
Release ==
  /\ ~Idle
  /\ ret' = NoRet
  /\ UNCHANGED <<doc, cache, heap, made>>

Init ==
  /\ doc \in 1..Len(Docs)
  /\ cache = [n \in Nodes(doc) |-> NoList]
  /\ heap = [r \in {} |-> <<>>]
  /\ made = [n \in Nodes(doc) |-> 0]
  /\ ret = NoRet

Next ==
  \/ \E n \in ScopeRoots(doc) \cup BigNodes(doc) : GetScope(n)
  \/ \E pos \in Offsets(doc), explicit \in BOOLEAN : LocalCompletionSource(pos, explicit)
  \/ \E pos \in Offsets(doc), explicit \in BOOLEAN, listed \in BOOLEAN :
       GlobalCompletion(pos, explicit, listed)
  \/ Release

Spec == Init /\ [][Next]_vars

----------------------------------------------------------------------------
(* Properties *)

\* the node the last request's cursor resolved to
Inner == resolveInner(doc, ret.pos)

\* the nodes on a path that are of scope-introducing kind, in path order
ScopesOn(path) ==
  SelectSeq(path, LAMBDA n : Node(doc, n).name \in
    {"Script", "Body", "FunctionDefinition", "ClassDefinition", "LambdaExpression", "ForStatement"})

\* the cached lists of the nodes of a path, one after the other
RECURSIVE Lists(_)
Lists(path) == IF path = <<>> THEN <<>> ELSE heap[cache[Head(path)]] \o Lists(Tail(path))

\* the proper descendants of a node
RECURSIVE Below(_, _)
Below(d, n) ==
  LET ch == {Node(d, n).children[i] : i \in 1..Len(Node(d, n).children)}
  IN ch \cup UNION {Below(d, c) : c \in ch}

\* the nearest proper ancestor of scope-introducing kind, 0 when there is none
EnclosingScope(d, n) ==
  LET up == ScopesOn(Tail(Ancestors(d, n)))
  IN IF up = <<>> THEN 0 ELSE Head(up)

\* how many entries of a list were defined from name token tok
Count(list, tok) == Cardinality({i \in 1..Len(list) : list[i].tok = tok})

\* C1: a getScope call on a node that already has a cache entry returns that
\* very list object (also an empty one), walks nothing and leaves the cache and
\* every list as they were.
C1_CacheHitSameObject ==
  [][\A n \in Nodes(doc) :
       (cache[n] # NoList /\ ret'.op = "getScope" /\ ret'.node = n)
         => /\ ret'.ref = cache[n]
            /\ ret'.walk = <<>>
            /\ cache' = cache /\ heap' = heap /\ made' = made]_vars

\* a second getScope on a node whose list is empty hit the cache
C1_Witness ==
  /\ ret.op = "getScope"
  /\ ret.walk = <<>>
  /\ ret.ref = cache[ret.node]
  /\ heap[ret.ref] = <<>>

\* C2: the options of a request that is not rejected are exactly the lists of
\* the scope-kind nodes among the resolved node and its ancestors, innermost
\* first, one after the other, nothing dropped.
C2_OptionsAreScopeListsInnermostFirst ==
  (ret.op = "local" /\ ~ret.null)
    => /\ \A n \in Nodes(doc) :
            (\E i \in 1..Len(ScopesOn(Ancestors(doc, Inner))) :
               ScopesOn(Ancestors(doc, Inner))[i] = n) => cache[n] # NoList
       /\ ret.options = Lists(ScopesOn(Ancestors(doc, Inner)))

\* a request inside three or more scopes whose options name the same binding
\* label and kind twice
C2_Witness ==
  /\ ret.op = "local" /\ ~ret.null
  /\ Len(ScopesOn(Ancestors(doc, Inner))) >= 3
  /\ \E i, j \in 1..Len(ret.options) :
       /\ i < j
       /\ ret.options[i].label = ret.options[j].label
       /\ ret.options[i].type = ret.options[j].type

\* C3: a function or class definition with a name token contributes to the list
\* of the scope enclosing it exactly one candidate, labelled with the text of
\* the name token and tagged "function" or "class" by the definition's kind.
C3_DefinitionContributesItsName ==
  \A n \in Nodes(doc) :
    LET kind == Node(doc, n).name
        id == getChild(doc, n, "VariableName")
        scope == EnclosingScope(doc, n)
    IN (kind \in {"FunctionDefinition", "ClassDefinition"} /\ id # 0 /\ scope # 0
          /\ cache[scope] # NoList)
         => /\ Count(heap[cache[scope]], id) = 1
            /\ \A i \in 1..Len(heap[cache[scope]]) :
                 heap[cache[scope]][i].tok = id
                   => /\ heap[cache[scope]][i].label
                           = sliceString(doc, Node(doc, id).from, Node(doc, id).to)
                      /\ heap[cache[scope]][i].type
                           = IF kind = "FunctionDefinition" THEN "function" ELSE "class"

\* a collected scope that holds a function and a class candidate
C3_Witness ==
  \E n \in Nodes(doc) :
    /\ cache[n] # NoList
    /\ \E i, j \in 1..Len(heap[cache[n]]) :
         /\ heap[cache[n]][i].type = "function" /\ Len(heap[cache[n]][i].label) >= 3
         /\ heap[cache[n]][j].type = "class"

\* the kind of the resolved node is one of the four excluded kinds
InnerExcluded == Node(doc, Inner).name \in {"String", "FormatString", "Comment", "PropertyName"}

\* C4 (as claimed): localCompletionSource returns null at every cursor position
\* at which ifNotIn(dontComplete, ...) keeps globalCompletion from firing.
C4_RejectsWhereverIfNotInDoes ==
  (ret.op = "local" /\ ifNotIn(doc, dontComplete, ret.pos)) => ret.null

\* C4 (amended): when the resolved node itself is of an excluded kind both
\* sources return null, explicit or not; a position localCompletionSource
\* rejects for its kind is one ifNotIn rejects too.
C4_ExcludedInnerRejectedByBoth ==
  (ret.op \in {"local", "global"} /\ InnerExcluded) => ret.null

\* an explicit request inside a string literal came back null
C4_Witness ==
  /\ ret.op = "local" /\ ret.explicit /\ ret.null
  /\ Node(doc, Inner).name = "String"
  /\ Node(doc, Inner).from < ret.pos /\ ret.pos < Node(doc, Inner).to

\* C5 (as claimed): the replacement range is the whole span of the token when
\* it was classified as a word, and empty at the cursor otherwise.
C5_RangeIsWholeToken ==
  (ret.op = "local" /\ ~ret.null)
    => IF isWord(doc, Inner)
         THEN ret.from = Node(doc, Inner).from /\ resultTo(ret) = Node(doc, Inner).to
         ELSE ret.from = ret.pos /\ resultTo(ret) = ret.pos

\* C5 (amended): the range starts at the token's start when it was classified
\* as a word and at the cursor otherwise, and always ends at the cursor; it is
\* the whole token exactly when the cursor is at the token's end.
C5_RangeIsTokenStartToCursor ==
  (ret.op = "local" /\ ~ret.null)
    => /\ resultTo(ret) = ret.pos
       /\ IF isWord(doc, Inner)
            THEN /\ ret.from = Node(doc, Inner).from
                 /\ (resultTo(ret) = Node(doc, Inner).to) <=> (ret.pos = Node(doc, Inner).to)
            ELSE ret.from = ret.pos

\* a request with the cursor strictly inside a variable-name token
C5_Witness ==
  /\ ret.op = "local" /\ ~ret.null
  /\ Node(doc, Inner).name = "VariableName"
  /\ Node(doc, Inner).from < ret.pos /\ ret.pos < Node(doc, Inner).to
  /\ ret.from = Node(doc, Inner).from

\* the variable-name tokens assigned to before the resolved node, in a scope
\* that encloses it
VariablesDefinedBefore ==
  {v \in Nodes(doc) :
     /\ Node(doc, v).name = "VariableName"
     /\ Node(doc, v).parent # 0
     /\ Node(doc, Node(doc, v).parent).name = "AssignmentExpression"
     /\ Node(doc, Node(doc, v).parent).children[1] = v
     /\ Node(doc, v).to <= Node(doc, Inner).from
     /\ \E i \in 1..Len(Ancestors(doc, Inner)) :
          Ancestors(doc, Inner)[i] = EnclosingScope(doc, v)}

\* C6: a request on a variable-name token offers a "variable" candidate for
\* every local variable defined earlier in an enclosing scope.
C6_EarlierVariablesOffered ==
  (ret.op = "local" /\ ~ret.null /\ Node(doc, Inner).name = "VariableName")
    => \A v \in VariablesDefinedBefore :
         \E i \in 1..Len(ret.options) :
           /\ ret.options[i].label = sliceString(doc, Node(doc, v).from, Node(doc, v).to)
           /\ ret.options[i].type = "variable"

\* C7: where the resolved node is neither of an excluded kind nor a word, a
\* request that is not explicit returns null, and an explicit one returns the
\* lists of all enclosing scopes with an empty range at the cursor.
C7_NonWordNeedsExplicit ==
  (ret.op = "local" /\ ~InnerExcluded /\ ~isWord(doc, Inner))
    => IF ret.explicit
         THEN /\ ~ret.null
              /\ ret.options = Lists(ScopesOn(Ancestors(doc, Inner)))
              /\ ret.from = ret.pos /\ resultTo(ret) = ret.pos
         ELSE ret.null

\* an explicit request just after a ";" returned candidates
C7_Witness ==
  /\ ret.op = "local" /\ ret.explicit /\ ~ret.null
  /\ ~InnerExcluded /\ ~isWord(doc, Inner)
  /\ ret.pos > 0 /\ charAt(doc, ret.pos - 1) = 59
  /\ ret.options # <<>>

\* the text of the resolved node
InnerText == sliceString(doc, Node(doc, Inner).from, Node(doc, Inner).to)

\* a character the claim allows in an identifier: a word character or one of
\* the extended range
ClaimedNameChar(c) ==
  \/ c \in 48..57 \/ c \in 65..90 \/ c = 95 \/ c \in 97..122
  \/ (161 <= c /\ c <= 65535)

\* the classification the claim gives
ClaimedWord ==
  \/ Node(doc, Inner).name = "VariableName"
  \/ /\ Span(doc, Inner) < 20
     /\ Len(InnerText) >= 1
     /\ \A i \in 1..Len(InnerText) : ClaimedNameChar(InnerText[i])
     /\ InnerText[1] \notin 48..57

\* C8: a token is a word iff it is a VariableName, or shorter than 20 and made
\* of identifier characters without a leading digit; a request that is not
\* explicit on a token that does not qualify returns null.
C8_WordIffIdentifierNotStartingWithDigit ==
  (ret.op = "local" /\ ~InnerExcluded)
    => /\ isWord(doc, Inner) <=> ClaimedWord
       /\ (~ClaimedWord /\ ~ret.explicit) => ret.null

\* the kinds whose subtree a walk leaves alone: the scope-introducing kinds
\* and the kinds with an extractor
Closed(n) ==
  Node(doc, n).name \in
    {"Script", "Body", "FunctionDefinition", "ClassDefinition", "LambdaExpression", "ForStatement"}

\* C9: no list holds a candidate whose name token lies inside a scope or
\* definition nested below the list's node, except that nested node's own name.
C9_NestedScopesNotFlattened ==
  \A r \in Nodes(doc) :
    cache[r] # NoList
      => \A i \in 1..Len(heap[cache[r]]) :
           \A m \in Below(doc, r) :
             (Closed(m) /\ heap[cache[r]][i].tok \in Below(doc, m))
               => heap[cache[r]][i].tok = getChild(doc, m, "VariableName")

\* a collected scope reaches, through a large anonymous node, a function with
\* a parameter, and lists the function
C9_Witness ==
  \E r \in {n \in Nodes(doc) : Closed(n) /\ cache[n] # NoList} :
    \E b \in {n \in Below(doc, r) : Node(doc, n).name = "" /\ Span(doc, n) > 8192} :
      \E m \in {n \in Below(doc, b) : Node(doc, n).name = "FunctionDefinition"} :
        \E p \in {n \in Below(doc, m) : Node(doc, n).name = "VariableName"} :
          /\ Node(doc, p).parent # m
          /\ Count(heap[cache[r]], getChild(doc, m, "VariableName")) = 1
          /\ Count(heap[cache[r]], p) = 0

\* the children of a node
Children(n) == {Node(doc, n).children[i] : i \in 1..Len(Node(doc, n).children)}

\* the nodes a walk visited
Walked == {ret.walk[i] : i \in 1..Len(ret.walk)}

IsDefinition(n) == Node(doc, n).name \in {"FunctionDefinition", "ClassDefinition"}

\* C10: the list of a function or class definition does not hold the
\* definition's own name, and the walk that builds it goes on into the
\* definition's children; with the cursor inside a named function, the options
\* hold the function's name once, from the scope enclosing the function.
C10_RootIsNotItsOwnCandidate ==
  /\ \A r \in Nodes(doc) :
       (IsDefinition(r) /\ cache[r] # NoList)
         => Count(heap[cache[r]], getChild(doc, r, "VariableName")) = 0
  /\ (ret.op = "getScope" /\ IsDefinition(ret.node) /\ ret.walk # <<>>)
       => Head(ret.walk) = ret.node /\ Children(ret.node) \subseteq Walked
  /\ (ret.op = "local" /\ ~ret.null)
       => \A i \in 1..Len(Ancestors(doc, Inner)) :
            LET f == Ancestors(doc, Inner)[i]
                id == getChild(doc, f, "VariableName")
            IN (Node(doc, f).name = "FunctionDefinition" /\ id # 0
                  /\ EnclosingScope(doc, f) # 0)
                 => /\ Count(ret.options, id) = 1
                    /\ Count(heap[cache[f]], id) = 0
                    /\ Count(heap[cache[EnclosingScope(doc, f)]], id) = 1

\* a request with the cursor inside the body of a named function
C10_Witness ==
  /\ ret.op = "local" /\ ~ret.null
  /\ \E f, b \in Nodes(doc) :
       /\ Node(doc, f).name = "FunctionDefinition"
       /\ b \in Children(f) /\ Node(doc, b).name = "Body"
       /\ Inner \in Below(doc, b)
       /\ Count(ret.options, getChild(doc, f, "VariableName")) = 1

RECURSIVE PlainVisit(_, _)
RECURSIVE PlainAll(_, _)

\* What a walk that descends into every anonymous node, whatever its span,
\* collects at node n below its root: the name of a definition, nothing of a
\* nested scope, the collection of the children otherwise.
PlainVisit(d, n) ==
  IF Node(d, n).name \in {"FunctionDefinition", "ClassDefinition"}
    THEN IF getChild(d, n, "VariableName") = 0 THEN <<>>
         ELSE <<[label |-> sliceString(d, Node(d, getChild(d, n, "VariableName")).from,
                                          Node(d, getChild(d, n, "VariableName")).to),
                 type |-> IF Node(d, n).name = "FunctionDefinition" THEN "function" ELSE "class",
                 tok |-> getChild(d, n, "VariableName")]>>
  ELSE IF Node(d, n).name \in {"Script", "Body", "LambdaExpression", "ForStatement"}
    THEN <<>>
  ELSE PlainAll(d, Node(d, n).children)

PlainAll(d, ch) ==
  IF ch = <<>> THEN <<>> ELSE PlainVisit(d, Head(ch)) \o PlainAll(d, Tail(ch))

\* the list of a walk of r without the large-anonymous-node rule and without a cache
PlainWalk(d, r) == PlainAll(d, Node(d, r).children)

\* the large anonymous nodes a walk of r comes to, its recursive walks included
LargeReached(r) ==
  {b \in Below(doc, r) :
     /\ Node(doc, b).name = "" /\ Span(doc, b) > 8192
     /\ \A m \in Below(doc, r) : b \in Below(doc, m) => ~Closed(m)}

\* C11: the list getScope builds for a scope root with the large-anonymous-node
\* rule holds the candidates, in the order, of a walk that never applies the
\* rule; and every large anonymous node the walk came to has a cache entry of
\* its own, holding what a walk of that node collects.
C11_LargeNodeRuleOnlyCaches ==
  \A r \in Nodes(doc) :
    (Closed(r) /\ cache[r] # NoList)
      => /\ heap[cache[r]] = PlainWalk(doc, r)
         /\ \A b \in LargeReached(r) :
              /\ cache[b] # NoList
              /\ cache[b] # cache[r]
              /\ heap[cache[b]] = PlainWalk(doc, b)

\* a collected scope root over a large anonymous node that holds another one,
\* listing candidates from inside both and one from after them
C11_Witness ==
  \E r \in {n \in Nodes(doc) : Closed(n) /\ cache[n] # NoList} :
    \E b \in LargeReached(r) :
      \E c \in LargeReached(b) :
        \E i, j, k \in 1..Len(heap[cache[r]]) :
          /\ i < j /\ j < k
          /\ heap[cache[r]][i].tok \in Below(doc, b) \ Below(doc, c)
          /\ heap[cache[r]][j].tok \in Below(doc, c)
          /\ heap[cache[r]][k].tok \notin Below(doc, b)

\* the lists a cache-free walk gives for the nodes of a path, one after the other
RECURSIVE PlainLists(_, _)
PlainLists(d, path) ==
  IF path = <<>> THEN <<>> ELSE PlainWalk(d, Head(path)) \o PlainLists(d, Tail(path))

\* C12: after every step each cache entry holds the list a cache-free walk of
\* its node gives; an entry appears only as the first list made for its node,
\* in a getScope or localCompletionSource call; an entry and the list it names
\* are never replaced, removed or changed afterwards; and what a call returns
\* is fixed by the document and the call's arguments, whatever ran before.
C12_CacheCoherentAndStable ==
  [][/\ \A n \in Nodes(doc) :
          /\ cache'[n] # NoList => heap'[cache'[n]] = PlainWalk(doc, n)
          /\ cache[n] # NoList => cache'[n] = cache[n]
          /\ (cache[n] = NoList /\ cache'[n] # NoList)
               => /\ cache'[n] = <<n, 1>> /\ made[n] = 0 /\ made'[n] = 1
                  /\ ret'.op \in {"getScope", "local"}
     /\ \A ref \in DOMAIN heap : ref \in DOMAIN heap' /\ heap'[ref] = heap[ref]
     /\ ret'.op = "getScope" => heap'[ret'.ref] = PlainWalk(doc, ret'.node)
     /\ (ret'.op = "local" /\ ~ret'.null)
          => ret'.options
               = PlainLists(doc, ScopesOn(Ancestors(doc, resolveInner(doc, ret'.pos))))]_vars

\* a request answered from entries that earlier calls had made, with
\* candidates from two of them
C12_Witness ==
  /\ ret.op = "local" /\ ~ret.null
  /\ ret.walk = <<>>
  /\ \E i, j \in 1..Len(ScopesOn(Ancestors(doc, Inner))) :
       /\ i < j
       /\ heap[cache[ScopesOn(Ancestors(doc, Inner))[i]]] # <<>>
       /\ heap[cache[ScopesOn(Ancestors(doc, Inner))[j]]] # <<>>

====
